---- MODULE Spec2Model ----
(***************************************************************************)
(* Model of the shader playground: main.rs (setup and the winit event-loop *)
(* closure), renderer.rs (Viewport, Renderer) and app.rs / color.rs (the   *)
(* application state edited through the GUI).                              *)
(*                                                                         *)
(* One action is one call of the event-loop closure (main.rs:69-122): the  *)
(* dispatch of one platform event followed by the non-blocking poll of the *)
(* file-watch channel.  The environment (the platform resizing the window, *)
(* the shader file on disk, the debouncer thread) has its own actions.     *)
(***************************************************************************)
EXTENDS Integers, Sequences, FiniteSets, TLC

\* ------------------------------------------------------------- bounds
MaxDim == 2          \* window / resize widths range over 0..MaxDim
MaxVersion == 2      \* distinct valid shader texts on disk
MaxQueue == 2
\* How far outside [0,1] a colour channel is taken, in steps of 1/FloatDen.
MaxOver == 20        \* batches waiting in the file-watch channel

\* ---------------------------------------------------- program constants
MSAA_SAMPLES == 1
FORMAT_INDEX == 0
ALPHA_MODES_INDEX == 0
max_texture_dimension_3d == 2048
BlurMax == 120

\* ------------------------------------------------------------- values
None == [tag |-> "None"]
Some(x) == [tag |-> "Some", val |-> x]

WindowIds == {"w1"}
PhysicalSize(w, h) == [width |-> w, height |-> h]
Widths == 0 .. MaxDim
Heights == {0, 1}
Sizes == {PhysicalSize(w, h) : w \in Widths, h \in Heights}
PositiveSizes == {s \in Sizes : s.width > 0 /\ s.height > 0}
\* The inner sizes the platform gives the window after startup: render reads
\* the inner size only to see whether a dimension is zero.
InnerSizes == {PhysicalSize(w, h) : w \in {0, 1}, h \in Heights}

\* What surface.get_capabilities reports: the first entry of each list is used.
SurfaceCaps ==
    [formats |-> <<"Bgra8UnormSrgb", "Rgba8UnormSrgb">>,
     alpha_modes |-> <<"Opaque", "PreMultiplied">>]

\* The shader file src/shaders/triangle.wgsl as the program can find it.
ShaderFiles ==
    {[kind |-> "unreadable", text |-> 0], [kind |-> "invalid", text |-> 0]}
        \cup {[kind |-> "ok", text |-> v] : v \in 1 .. MaxVersion}

\* ------------------------------------------------------------- colours
\* A float channel is an integer count of 1/FloatDen, so that n/255 and 0.1
\* are both exact.
FloatDen == 255 * 10
Clamp(x, lo, hi) == IF x < lo THEN lo ELSE IF x > hi THEN hi ELSE x

\* egui::Color32: four 8-bit channels.
Color32(r, g, b, a) == [r |-> r, g |-> g, b |-> b, a |-> a]
Color32_RED == Color32(255, 0, 0, 255)
Color32_BLUE == Color32(0, 0, 255, 255)
\* The colours a colour picker can hand back in this model.
PickerColors == {Color32_RED}

\* LinSrgba<f64> inside Color.
LinSrgba(r, g, b, a) == [red |-> r, green |-> g, blue |-> b, alpha |-> a]

\* into_format u8 -> f64 with the divisor off by one: v / 256.
U8ToFloat_by_256(v) == (v * FloatDen) \div 256

\* into_format u8 -> f64: v / 255.
U8ToFloat(v) == v * (FloatDen \div 255)
\* into_format f64 -> u8: clamp to [0,1], scale by 255, round to nearest.
FloatToU8(x) == (2 * Clamp(x, 0, FloatDen) * 255 + FloatDen) \div (2 * FloatDen)

\* impl From<egui::Color32> for Color
ColorFromColor32(c) ==
    LinSrgba(U8ToFloat(c.r), U8ToFloat(c.g), U8ToFloat(c.b), U8ToFloat(c.a))

\* impl From<Color> for egui::Color32
Color32FromColor(x) ==
    Color32(FloatToU8(x.red), FloatToU8(x.green), FloatToU8(x.blue), FloatToU8(x.alpha))

\* impl From<Color> for wgpu::Color
WgpuColorFromColor(x) == [r |-> x.red, g |-> x.green, b |-> x.blue, a |-> x.alpha]

\* The largest u8.
U8Max == 255

\* wgpu::Color::WHITE
WgpuColor_WHITE == [r |-> FloatDen, g |-> FloatDen, b |-> FloatDen, a |-> FloatDen]

\* ------------------------------------------------------------- App
\* App::new
App_new ==
    [bg_color |-> LinSrgba(FloatDen \div 10, FloatDen \div 10, FloatDen \div 10, FloatDen),
     triangle_color |-> ColorFromColor32(Color32_BLUE),
     blur_kernel |-> 0]

\* What the user does to the three widgets during one UI pass.
UiEdits ==
    {[widget |-> "none", color |-> Color32_RED, value |-> 0]}
        \cup {[widget |-> w, color |-> c, value |-> 0] :
                 w \in {"triangle color", "bg color"}, c \in PickerColors}
        \cup {[widget |-> "Blur Kernel Size", color |-> Color32_RED, value |-> v] :
                 v \in {0 - 5, BlurMax + 80}}

\* App::ui with a drag value that is stored as the user gave it.
App_ui_no_clamp(a, edit) ==
    [bg_color |->
         IF edit.widget = "bg color" THEN ColorFromColor32(edit.color) ELSE a.bg_color,
     triangle_color |->
         IF edit.widget = "triangle color"
         THEN ColorFromColor32(edit.color) ELSE a.triangle_color,
     blur_kernel |->
         IF edit.widget = "Blur Kernel Size" THEN edit.value ELSE a.blur_kernel]

\* App::ui: each colour picker writes the state only when it changed; the drag
\* value is clamped to 0..=120 before it is stored.
App_ui(a, edit) ==
    [bg_color |->
         IF edit.widget = "bg color" THEN ColorFromColor32(edit.color) ELSE a.bg_color,
     triangle_color |->
         IF edit.widget = "triangle color"
         THEN ColorFromColor32(edit.color) ELSE a.triangle_color,
     blur_kernel |->
         IF edit.widget = "Blur Kernel Size"
         THEN Clamp(edit.value, 0, BlurMax) ELSE Clamp(a.blur_kernel, 0, BlurMax)]

\* A window-event hook that writes the state.
App_handle_window_event_writes(a) == [a EXCEPT !.blur_kernel = BlurMax]

\* App::handle_window_event: an empty body.
App_handle_window_event(a) == a

\* ------------------------------------------------------------- GPU
\* A frame texture's contents: what it was cleared to, the triangle drawn
\* into it, and whether the GUI was drawn over it.
StaleTexture == [clear |-> None, triangle |-> None, gui |-> FALSE]

\* A render pass executed on the presentable view: LoadOp::Clear discards
\* what the view held, LoadOp::Load keeps it; then the pass draws.
ExecPass(tex, p) ==
    LET base == IF p.load.op = "Clear"
                THEN [clear |-> Some(p.load.color), triangle |-> None, gui |-> FALSE]
                ELSE tex
    IN  [base EXCEPT
            !.triangle = IF p.pipeline.tag = "Some"
                         THEN Some([pipeline |-> p.pipeline.val,
                                    color |-> p.bind_group.val.color,
                                    indices |-> p.draw])
                         ELSE @,
            !.gui = IF p.egui THEN TRUE ELSE @]

NoPass == [label |-> "none"]
QueueOp(op, pass) == [op |-> op, pass |-> pass]
OpAcquire == QueueOp("acquire", NoPass)
OpAcquireFailed == QueueOp("acquire failed", NoPass)
OpPresent == QueueOp("present", NoPass)
OpSubmit(pass) == QueueOp("submit", pass)

\* The queue executes submissions in order; present shows what the frame's
\* texture holds when it is called (None when no present is reached).
RECURSIVE RunOps(_, _, _)
RunOps(ops, i, tex) ==
    IF i > Len(ops) THEN None
    ELSE IF ops[i].op = "present" THEN Some(tex)
    ELSE IF ops[i].op = "submit" THEN RunOps(ops, i + 1, ExecPass(tex, ops[i].pass))
    ELSE IF ops[i].op = "acquire" THEN RunOps(ops, i + 1, StaleTexture)
    ELSE None
PresentedImage(ops) == RunOps(ops, 1, StaleTexture)

\* ------------------------------------------------------------- Viewport
\* ViewportDesc::create_target_texture
create_target_texture(size, format) ==
    IF MSAA_SAMPLES = 1 THEN None
    ELSE IF size.width > max_texture_dimension_3d
            \/ size.height > max_texture_dimension_3d THEN None
    ELSE Some([label |-> "render target",
               width |-> size.width, height |-> size.height,
               sample_count |-> MSAA_SAMPLES, format |-> format])

\* ViewportDesc::build: the viewport, and the configuration handed to
\* surface.configure.
ViewportDesc_build(window_id, background, size) ==
    LET format == SurfaceCaps.formats[FORMAT_INDEX + 1]
        config == [usage |-> "RENDER_ATTACHMENT",
                   format |-> format,
                   width |-> size.width,
                   height |-> size.height,
                   present_mode |-> "Fifo",
                   alpha_mode |-> SurfaceCaps.alpha_modes[ALPHA_MODES_INDEX + 1]]
    IN  [viewport |-> [desc |-> [window |-> window_id, background |-> background],
                       config |-> config,
                       render_target |-> create_target_texture(size, format)],
         surface |-> Some(config)]

\* Viewport::resize returning early only when both dimensions are zero.
Viewport_resize_both_zero(vp, surf, size) ==
    IF size.width = 0 /\ size.height = 0
    THEN [viewport |-> vp, surface |-> surf, configured |-> FALSE, replaced |-> FALSE]
    ELSE LET config == [vp.config EXCEPT !.width = size.width, !.height = size.height]
         IN  [viewport |-> [vp EXCEPT
                               !.config = config,
                               !.render_target = create_target_texture(size, config.format)],
              surface |-> Some(config),
              configured |-> TRUE,
              replaced |-> TRUE]

\* Viewport::resize without the early return on a zero dimension.
Viewport_resize_no_zero_check(vp, surf, size) ==
    LET config == [vp.config EXCEPT !.width = size.width, !.height = size.height]
    IN  [viewport |-> [vp EXCEPT
                          !.config = config,
                          !.render_target = create_target_texture(size, config.format)],
         surface |-> Some(config),
         configured |-> TRUE,
         replaced |-> TRUE]

\* Viewport::resize storing the new size without reconfiguring the surface.
Viewport_resize_no_configure(vp, surf, size) ==
    IF size.width = 0 \/ size.height = 0
    THEN [viewport |-> vp, surface |-> surf, configured |-> FALSE, replaced |-> FALSE]
    ELSE LET config == [vp.config EXCEPT !.width = size.width, !.height = size.height]
         IN  [viewport |-> [vp EXCEPT
                               !.config = config,
                               !.render_target = create_target_texture(size, config.format)],
              surface |-> surf,
              configured |-> FALSE,
              replaced |-> TRUE]

\* Viewport::resize: the viewport and its surface afterwards; configured says
\* whether surface.configure was called, replaced whether the offscreen target
\* was swapped.
Viewport_resize(vp, surf, size) ==
    IF size.width = 0 \/ size.height = 0
    THEN [viewport |-> vp, surface |-> surf, configured |-> FALSE, replaced |-> FALSE]
    ELSE LET config == [vp.config EXCEPT !.width = size.width, !.height = size.height]
         IN  [viewport |-> [vp EXCEPT
                               !.config = config,
                               !.render_target = create_target_texture(size, config.format)],
              surface |-> Some(config),
              configured |-> TRUE,
              replaced |-> TRUE]

\* ------------------------------------------------------------- Renderer
NoResource == [build |-> 0]
NoBundle ==
    [render_pipeline |-> NoResource, bind_group_layout |-> NoResource,
     vertex_buffer |-> NoResource, index_buffer |-> NoResource, num_indices |-> 0]
NoRenderer ==
    [viewports |-> [w \in {} |-> None],
     render_pipeline |-> NoResource, bind_group_layout |-> NoResource,
     vertex_buffer |-> NoResource, index_buffer |-> NoResource, num_indices |-> 0,
     egui_renderers |-> [w \in {} |-> None],
     egui_contexts |-> {}]

\* The five fields of a Renderer that make up the pipeline bundle.
BundleOf(r) ==
    [render_pipeline |-> r.render_pipeline,
     bind_group_layout |-> r.bind_group_layout,
     vertex_buffer |-> r.vertex_buffer,
     index_buffer |-> r.index_buffer,
     num_indices |-> r.num_indices]

\* Renderer::create_pipeline_and_buffers: read_to_string fails with an error
\* on an unreadable file; a text that is not valid WGSL makes
\* create_shader_module raise an uncaptured validation error, which panics;
\* otherwise every resource of the bundle is created by this one call.  A
\* resource carries, as build, the text that was read by the call creating it.
create_pipeline_and_buffers(file, swapchain_format) ==
    IF file.kind = "unreadable"
    THEN [res |-> "Err", error |-> "shader file unreadable", bundle |-> NoBundle]
    ELSE IF file.kind = "invalid"
    THEN [res |-> "Panic", error |-> "shader validation error", bundle |-> NoBundle]
    ELSE LET id == file.text
         IN  [res |-> "Ok", error |-> "none",
              bundle |->
                  [render_pipeline |->
                       [build |-> id, shader |-> file.text, format |-> swapchain_format,
                        blend |-> "ALPHA_BLENDING", samples |-> MSAA_SAMPLES],
                   bind_group_layout |-> [build |-> id, min_binding_size |-> 16],
                   vertex_buffer |-> [build |-> id, vertices |-> 3],
                   index_buffer |-> [build |-> id, indices |-> <<0, 1, 2>>],
                   num_indices |-> Len(<<0, 1, 2>>)]]

\* Renderer::new for the windows of main: surfaces, adapter, device, the
\* viewports (each surface is configured here), the egui renderers, and last
\* the pipeline bundle.
Renderer_new(file, adapter_ok, window_ids, background, size) ==
    LET unconfigured == [w \in window_ids |-> None]
    IN
    IF ~adapter_ok
    THEN [res |-> "Err", error |-> "Failed to find an appropriate adapter",
          renderer |-> NoRenderer, surface |-> unconfigured, built |-> NoBundle]
    ELSE LET built_vp == [w \in window_ids |-> ViewportDesc_build(w, background, size)]
             viewport_map == [w \in window_ids |-> built_vp[w].viewport]
             surfaces == [w \in window_ids |-> built_vp[w].surface]
             primary_viewport == viewport_map[CHOOSE w \in window_ids : TRUE]
             b == create_pipeline_and_buffers(file, primary_viewport.config.format)
         IN  IF b.res = "Ok"
             THEN [res |-> "Ok", error |-> "none",
                   renderer |->
                       [viewports |-> viewport_map,
                        render_pipeline |-> b.bundle.render_pipeline,
                        bind_group_layout |-> b.bundle.bind_group_layout,
                        vertex_buffer |-> b.bundle.vertex_buffer,
                        index_buffer |-> b.bundle.index_buffer,
                        num_indices |-> b.bundle.num_indices,
                        egui_renderers |->
                            [w \in window_ids |->
                                Some([format |-> primary_viewport.config.format])],
                        egui_contexts |-> window_ids],
                   surface |-> surfaces, built |-> b.bundle]
             ELSE [res |-> b.res, error |-> b.error,
                   renderer |-> NoRenderer, surface |-> surfaces, built |-> NoBundle]

\* Renderer::reload without the assignment of render_pipeline.
Renderer_reload_keeps_pipeline(r, file) ==
    IF DOMAIN r.viewports = {}
    THEN [res |-> "Err", error |-> "failed to get viewport",
          renderer |-> r, built |-> NoBundle]
    ELSE LET viewport == r.viewports[CHOOSE w \in DOMAIN r.viewports : TRUE]
             b == create_pipeline_and_buffers(file, viewport.config.format)
         IN  IF b.res = "Ok"
             THEN [res |-> "Ok", error |-> "none",
                   renderer |-> [r EXCEPT
                                    !.bind_group_layout = b.bundle.bind_group_layout,
                                    !.vertex_buffer = b.bundle.vertex_buffer,
                                    !.index_buffer = b.bundle.index_buffer,
                                    !.num_indices = b.bundle.num_indices],
                   built |-> b.bundle]
             ELSE [res |-> b.res, error |-> b.error,
                   renderer |-> r, built |-> NoBundle]

\* Renderer::reload assigning whatever the build returned, before looking at
\* its result.
Renderer_reload_assigns_first(r, file) ==
    IF DOMAIN r.viewports = {}
    THEN [res |-> "Err", error |-> "failed to get viewport",
          renderer |-> r, built |-> NoBundle]
    ELSE LET viewport == r.viewports[CHOOSE w \in DOMAIN r.viewports : TRUE]
             b == create_pipeline_and_buffers(file, viewport.config.format)
         IN  [res |-> b.res, error |-> b.error,
              renderer |-> [r EXCEPT
                               !.render_pipeline = b.bundle.render_pipeline,
                               !.bind_group_layout = b.bundle.bind_group_layout,
                               !.vertex_buffer = b.bundle.vertex_buffer,
                               !.index_buffer = b.bundle.index_buffer,
                               !.num_indices = b.bundle.num_indices],
              built |-> IF b.res = "Ok" THEN b.bundle ELSE NoBundle]

\* Renderer::reload: the five fields are assigned only after the build has
\* returned Ok; built is what the build returned.
Renderer_reload(r, file) ==
    IF DOMAIN r.viewports = {}
    THEN [res |-> "Err", error |-> "failed to get viewport",
          renderer |-> r, built |-> NoBundle]
    ELSE LET viewport == r.viewports[CHOOSE w \in DOMAIN r.viewports : TRUE]
             b == create_pipeline_and_buffers(file, viewport.config.format)
         IN  IF b.res = "Ok"
             THEN [res |-> "Ok", error |-> "none",
                   renderer |-> [r EXCEPT
                                    !.render_pipeline = b.bundle.render_pipeline,
                                    !.bind_group_layout = b.bundle.bind_group_layout,
                                    !.vertex_buffer = b.bundle.vertex_buffer,
                                    !.index_buffer = b.bundle.index_buffer,
                                    !.num_indices = b.bundle.num_indices],
                   built |-> b.bundle]
             ELSE [res |-> b.res, error |-> b.error,
                   renderer |-> r, built |-> NoBundle]

\* Renderer::resize: resize the window's viewport, if it has one, and ask for
\* a redraw.
Renderer_resize(r, surf, window_id, size) ==
    IF window_id \in DOMAIN r.viewports
    THEN LET v == Viewport_resize(r.viewports[window_id], surf[window_id], size)
         IN  [renderer |-> [r EXCEPT !.viewports[window_id] = v.viewport],
              surface |-> [surf EXCEPT ![window_id] = v.surface],
              redraw_requested |-> TRUE,
              configured |-> v.configured, replaced |-> v.replaced]
    ELSE [renderer |-> r, surface |-> surf, redraw_requested |-> FALSE,
          configured |-> FALSE, replaced |-> FALSE]

\* Renderer::render_background: one render pass that clears to white and
\* draws the triangle with the installed bundle and the triangle colour as
\* uniform, submitted on its own.  color.r() .. color.a() are the 8-bit
\* channels of the triangle colour, each divided by 255; app.bg_color is not
\* read.
render_background(r, a, target_view) ==
    LET color == Color32FromColor(a.triangle_color)
        color_array == <<U8ToFloat(color.r), U8ToFloat(color.g),
                         U8ToFloat(color.b), U8ToFloat(color.a)>>
        bind_group == [layout |-> r.bind_group_layout, color |-> color_array]
        pass == [label |-> "Render Pass",
                 view |-> IF target_view.tag = "Some" THEN "target" ELSE "frame",
                 resolve_target |-> IF target_view.tag = "Some" THEN Some("frame") ELSE None,
                 load |-> [op |-> "Clear", color |-> WgpuColor_WHITE],
                 pipeline |-> Some(r.render_pipeline),
                 bind_group |-> Some(bind_group),
                 vertex_buffer |-> Some(r.vertex_buffer),
                 index_buffer |-> Some(r.index_buffer),
                 draw |-> r.num_indices,
                 egui |-> FALSE]
    IN  <<OpSubmit(pass)>>

\* Renderer::render_ui: take the accumulated input, run App::ui, then one
\* render pass that loads the view and draws the GUI, submitted on its own.
render_ui(r, a, window_id, edit) ==
    LET pass == [label |-> "egui Render Pass",
                 view |-> "frame",
                 resolve_target |-> None,
                 load |-> [op |-> "Load", color |-> WgpuColor_WHITE],
                 pipeline |-> None,
                 bind_group |-> None,
                 vertex_buffer |-> None,
                 index_buffer |-> None,
                 draw |-> 0,
                 egui |-> TRUE]
    IN  IF r.egui_renderers[window_id].tag = "Some" /\ window_id \in r.egui_contexts
        THEN [app |-> App_ui(a, edit), ui_ran |-> TRUE, input_taken |-> TRUE,
              ops |-> <<OpSubmit(pass)>>, panic |-> "none"]
        ELSE [app |-> a, ui_ran |-> FALSE, input_taken |-> FALSE,
              ops |-> <<>>, panic |-> "could not get egui context for id"]

\* Renderer::render without the check of the window size.
Renderer_render_no_size_check(r, a, size, window_id, acquire_ok, edit) ==
    IF window_id \notin DOMAIN r.viewports
    THEN [app |-> a, input_taken |-> FALSE, ui_ran |-> FALSE, ops |-> <<>>,
          panic |-> "none"]
    ELSE IF ~acquire_ok
    THEN [app |-> a, input_taken |-> FALSE, ui_ran |-> FALSE,
          ops |-> <<OpAcquireFailed>>,
          panic |-> "Failed to acquire next swap chain texture"]
    ELSE LET viewport == r.viewports[window_id]
             bg == render_background(r, a, viewport.render_target)
             ui == render_ui(r, a, window_id, edit)
         IN  [app |-> ui.app, input_taken |-> ui.input_taken, ui_ran |-> ui.ui_ran,
              ops |-> <<OpAcquire>> \o bg \o ui.ops \o <<OpPresent>>,
              panic |-> ui.panic]

\* Renderer::render presenting right after the background pass (the
\* commented-out frame.present() of renderer.rs:320), before the GUI pass.
Renderer_render_early_present(r, a, size, window_id, acquire_ok, edit) ==
    IF size.width = 0 \/ size.height = 0
    THEN [app |-> a, input_taken |-> FALSE, ui_ran |-> FALSE, ops |-> <<>>,
          panic |-> "none"]
    ELSE IF window_id \notin DOMAIN r.viewports
    THEN [app |-> a, input_taken |-> FALSE, ui_ran |-> FALSE, ops |-> <<>>,
          panic |-> "none"]
    ELSE IF ~acquire_ok
    THEN [app |-> a, input_taken |-> FALSE, ui_ran |-> FALSE,
          ops |-> <<OpAcquireFailed>>,
          panic |-> "Failed to acquire next swap chain texture"]
    ELSE LET viewport == r.viewports[window_id]
             bg == render_background(r, a, viewport.render_target)
             ui == render_ui(r, a, window_id, edit)
         IN  [app |-> ui.app, input_taken |-> ui.input_taken, ui_ran |-> ui.ui_ran,
              ops |-> <<OpAcquire>> \o bg \o <<OpPresent>> \o ui.ops,
              panic |-> ui.panic]

\* Renderer::render: skip on a zero-sized window; otherwise acquire (a failed
\* acquisition panics), background pass, GUI pass, present.
Renderer_render(r, a, size, window_id, acquire_ok, edit) ==
    IF size.width = 0 \/ size.height = 0
    THEN [app |-> a, input_taken |-> FALSE, ui_ran |-> FALSE, ops |-> <<>>,
          panic |-> "none"]
    ELSE IF window_id \notin DOMAIN r.viewports
    THEN [app |-> a, input_taken |-> FALSE, ui_ran |-> FALSE, ops |-> <<>>,
          panic |-> "none"]
    ELSE IF ~acquire_ok
    THEN [app |-> a, input_taken |-> FALSE, ui_ran |-> FALSE,
          ops |-> <<OpAcquireFailed>>,
          panic |-> "Failed to acquire next swap chain texture"]
    ELSE LET viewport == r.viewports[window_id]
             bg == render_background(r, a, viewport.render_target)
             ui == render_ui(r, a, window_id, edit)
         IN  IF ui.panic # "none"
             THEN [app |-> ui.app, input_taken |-> ui.input_taken, ui_ran |-> ui.ui_ran,
                   ops |-> <<OpAcquire>> \o bg \o ui.ops, panic |-> ui.panic]
             ELSE [app |-> ui.app, input_taken |-> ui.input_taken, ui_ran |-> ui.ui_ran,
                   ops |-> <<OpAcquire>> \o bg \o ui.ops \o <<OpPresent>>,
                   panic |-> "none"]

\* ------------------------------------------------------------- state
VARIABLES
    pc,            \* "start", "running", "failed" (main returned Err),
                   \* "panicked", "exited" (normal exit of the event loop)
    error,         \* the error main returned or the panic message
    control_flow,  \* winit's ControlFlow as the closure left it
    window,        \* the one window: created, inner_size
    shader_file,   \* src/shaders/triangle.wgsl on disk
    receiver,      \* the receiving end of the file-watch channel
    renderer,      \* Renderer
    surface,       \* per window, the configuration its surface was given
    app,           \* App
    last,          \* what the last step did (observations of one closure call)
    hist,          \* history: the last positive size given, whether the latest
                   \* resize was zero-sized, the last bundle built
    conv           \* a colour value on its way through the conversions of
                   \* color.rs (unused by main's own steps)

vars == <<pc, error, control_flow, window, shader_file, receiver, renderer,
          surface, app, last, hist, conv>>

NoSize == PhysicalSize(0, 0)

\* Observations of a step that is not a call of the event-loop closure.
NoObs ==
    [event |-> "none", size |-> NoSize, inner_size |-> NoSize, ops |-> <<>>,
     ui_ran |-> FALSE, configured |-> FALSE, replaced |-> FALSE,
     after_zero |-> FALSE, redraw_requested |-> FALSE, input_forwarded |-> FALSE, input_taken |-> FALSE,
     blur_attempt |-> None, dispatch_panic |-> FALSE,
     queue_before |-> 0, poll |-> "none", reloads |-> 0, reload_res |-> "none"]

Obs(event) == [NoObs EXCEPT !.event = event]

\* No colour value is under conversion.
NoConversion ==
    [start |-> "none", type |-> "none", steps |-> 0, origin |-> None, value |-> None]

Init ==
    /\ conv = NoConversion
    /\ pc = "start"
    /\ error = "none"
    /\ control_flow = "Poll"
    /\ window = [created |-> FALSE, inner_size |-> NoSize]
    /\ shader_file \in ShaderFiles
    /\ receiver = [queue |-> 0, connected |-> FALSE]
    /\ renderer = NoRenderer
    /\ surface = [w \in WindowIds |-> None]
    /\ app = App_new
    /\ last = NoObs
    /\ hist = [last_positive |-> NoSize, zero_resize |-> FALSE, built |-> NoBundle]

\* ------------------------------------------------------------- setup
\* main up to event_loop.run: the window is built first, then App::new and
\* Renderer::new (whose error main returns), then the channel and the watcher
\* (whose error main returns), then the loop is entered.
MainSetup(size, adapter_ok, watcher_ok) ==
    /\ pc = "start"
    /\ LET n == Renderer_new(shader_file, adapter_ok, WindowIds, "RED", size)
       IN  /\ window' = [created |-> TRUE, inner_size |-> size]
           /\ app' = App_new
           /\ surface' = n.surface
           /\ IF n.res = "Ok" /\ watcher_ok
              THEN /\ renderer' = n.renderer
                   /\ hist' = [last_positive |-> size, zero_resize |-> FALSE, built |-> n.built]
                   /\ receiver' = [queue |-> 0, connected |-> TRUE]
                   /\ pc' = "running"
                   /\ error' = "none"
              ELSE /\ renderer' = NoRenderer
                   /\ UNCHANGED <<hist, receiver>>
                   /\ pc' = IF n.res = "Panic" THEN "panicked" ELSE "failed"
                   /\ error' = IF n.res # "Ok" THEN n.error ELSE "watcher failed"
           /\ last' = Obs("setup")
           /\ UNCHANGED <<control_flow, shader_file, conv>>

\* The loop is running and has not been told to exit.
Running == pc = "running" /\ control_flow = "Poll"

\* ------------------------------------------------------------- environment
\* The platform gives the window a new inner size (a drag, a minimise).
PlatformResizeWindow(size) ==
    /\ Running
    /\ size # window.inner_size
    /\ window' = [window EXCEPT !.inner_size = size]
    /\ last' = Obs("environment")
    /\ UNCHANGED <<pc, error, control_flow, shader_file, receiver, renderer,
                   surface, app, hist, conv>>

\* Something rewrites, removes or breaks the shader file.
ShaderFileWrite(file) ==
    /\ Running
    /\ file # shader_file
    /\ shader_file' = file
    /\ last' = Obs("environment")
    /\ UNCHANGED <<pc, error, control_flow, window, receiver, renderer,
                   surface, app, hist, conv>>

\* The debouncer thread sends one batch of events (or of errors).
DebouncerSend ==
    /\ Running
    /\ receiver.connected
    /\ receiver.queue < MaxQueue
    /\ receiver' = [receiver EXCEPT !.queue = @ + 1]
    /\ last' = Obs("environment")
    /\ UNCHANGED <<pc, error, control_flow, window, shader_file, renderer,
                   surface, app, hist, conv>>

\* The debouncer thread ends and drops the sender.
WatcherDisconnect ==
    /\ Running
    /\ receiver.connected
    /\ receiver' = [receiver EXCEPT !.connected = FALSE]
    /\ last' = Obs("environment")
    /\ UNCHANGED <<pc, error, control_flow, window, shader_file, renderer,
                   surface, app, hist, conv>>

\* ------------------------------------------------------------- event loop
\* Receiver::try_recv: a waiting batch first; Disconnected only when the
\* channel is empty and the sender is gone.
try_recv(rx) ==
    IF rx.queue > 0
    THEN [result |-> "Ok", receiver |-> [rx EXCEPT !.queue = @ - 1]]
    ELSE IF ~rx.connected
    THEN [result |-> "Disconnected", receiver |-> rx]
    ELSE [result |-> "Empty", receiver |-> rx]

\* The poll with Disconnected treated like Empty.
PollChannel_ignores_disconnect(rx, r, file) ==
    LET t == try_recv(rx)
    IN  IF t.result = "Ok"
        THEN LET rl == Renderer_reload(r, file)
             IN  [poll |-> "Ok", receiver |-> t.receiver, renderer |-> rl.renderer,
                  reloads |-> 1, reload_res |-> rl.res, built |-> rl.built,
                  panic |-> IF rl.res = "Ok" THEN "none" ELSE rl.error]
        ELSE [poll |-> t.result, receiver |-> t.receiver, renderer |-> r,
              reloads |-> 0, reload_res |-> "none", built |-> NoBundle,
              panic |-> "none"]

\* The poll that ends every call of the closure: on a batch, reload and
\* unwrap; Empty is Ok; Disconnected is an Err that the final unwrap panics on.
PollChannel(rx, r, file) ==
    LET t == try_recv(rx)
    IN  IF t.result = "Ok"
        THEN LET rl == Renderer_reload(r, file)
             IN  [poll |-> "Ok", receiver |-> t.receiver, renderer |-> rl.renderer,
                  reloads |-> 1, reload_res |-> rl.res, built |-> rl.built,
                  panic |-> IF rl.res = "Ok" THEN "none" ELSE rl.error]
        ELSE [poll |-> t.result, receiver |-> t.receiver, renderer |-> r,
              reloads |-> 0, reload_res |-> "none", built |-> NoBundle,
              panic |-> IF t.result = "Disconnected" THEN "Disconnected" ELSE "none"]

\* What the match on the event leaves behind, before the poll.
Dispatched(obs, cf, r, surf, a, panic) ==
    [obs |-> obs, control_flow |-> cf, renderer |-> r, surface |-> surf,
     app |-> a, panic |-> panic]

\* One call of the closure: the dispatch d, then the poll unless the dispatch
\* panicked.  exits says whether this is the call winit makes last.
EventLoopIteration(d, exits) ==
    /\ surface' = d.surface
    /\ app' = d.app
    /\ control_flow' = d.control_flow
    /\ UNCHANGED <<window, shader_file, conv>>
    /\ IF d.panic # "none"
       THEN /\ pc' = "panicked"
            /\ error' = d.panic
            /\ renderer' = d.renderer
            /\ last' = [d.obs EXCEPT !.dispatch_panic = TRUE,
                                     !.queue_before = receiver.queue]
            /\ UNCHANGED <<receiver, hist>>
       ELSE LET p == PollChannel(receiver, d.renderer, shader_file)
            IN  /\ receiver' = p.receiver
                /\ renderer' = p.renderer
                /\ hist' = [hist EXCEPT
                               !.last_positive =
                                   IF d.obs.event = "Resized" /\ d.obs.size \in PositiveSizes
                                   THEN d.obs.size ELSE @,
                               !.zero_resize =
                                   IF d.obs.event = "Resized"
                                   THEN d.obs.size \notin PositiveSizes ELSE @,
                               !.built = IF p.reload_res = "Ok" THEN p.built ELSE @]
                /\ last' = [d.obs EXCEPT !.queue_before = receiver.queue,
                                         !.poll = p.poll,
                                         !.reloads = p.reloads,
                                         !.reload_res = p.reload_res]
                /\ pc' = IF p.panic # "none" THEN "panicked"
                         ELSE IF exits THEN "exited" ELSE "running"
                /\ error' = p.panic

\* WindowEvent::CloseRequested
CloseRequested ==
    /\ Running
    /\ EventLoopIteration(
           Dispatched(Obs("CloseRequested"), "Exit", renderer, surface, app,
                      "none"), FALSE)

\* Event::MainEventsCleared: request a redraw of every window.
MainEventsCleared ==
    /\ Running
    /\ EventLoopIteration(
           Dispatched([Obs("MainEventsCleared") EXCEPT !.redraw_requested = TRUE],
                      "Poll", renderer, surface, app, "none"), FALSE)

\* Event::RedrawRequested(window_id): render one frame.
RedrawRequested(window_id, acquire_ok, edit) ==
    /\ Running
    /\ LET f == Renderer_render(renderer, app, window.inner_size, window_id,
                                acquire_ok, edit)
       IN  EventLoopIteration(
               Dispatched([Obs("RedrawRequested") EXCEPT
                              !.inner_size = window.inner_size,
                              !.ops = f.ops, !.ui_ran = f.ui_ran,
                              !.input_taken = f.input_taken,
                              !.blur_attempt =
                                  IF f.ui_ran /\ edit.widget = "Blur Kernel Size"
                                  THEN Some(edit.value) ELSE None],
                          "Poll", renderer, surface, f.app, f.panic),
               FALSE)

\* WindowEvent::Resized(size)
Resized(window_id, size) ==
    /\ Running
    /\ LET z == Renderer_resize(renderer, surface, window_id, size)
       IN  EventLoopIteration(
               Dispatched([Obs("Resized") EXCEPT
                              !.size = size, !.after_zero = hist.zero_resize,
                              !.configured = z.configured,
                              !.replaced = z.replaced,
                              !.redraw_requested = z.redraw_requested],
                          "Poll", z.renderer, z.surface, app, "none"),
               FALSE)

\* Any other WindowEvent: to the egui input adapter, then to the App hook.
WindowEvent(window_id) ==
    /\ Running
    /\ EventLoopIteration(
           Dispatched([Obs("WindowEvent") EXCEPT
                          !.input_forwarded = window_id \in renderer.egui_contexts],
                      "Poll", renderer, surface, App_handle_window_event(app),
                      "none"), FALSE)

\* Any other Event (NewEvents, RedrawEventsCleared, ...): the `_` arm.
OtherEvent ==
    /\ Running
    /\ EventLoopIteration(
           Dispatched(Obs("Other"), "Poll", renderer, surface, app, "none"), FALSE)

\* Event::LoopDestroyed, the call winit makes once ControlFlow::Exit is set:
\* the `_` arm, the poll, and the process exits.
LoopDestroyed ==
    /\ pc = "running"
    /\ control_flow = "Exit"
    /\ EventLoopIteration(
           Dispatched(Obs("LoopDestroyed"), "Exit", renderer, surface, app,
                      "none"), TRUE)

Setup ==
    \E size \in PositiveSizes, adapter_ok \in BOOLEAN, watcher_ok \in BOOLEAN :
        MainSetup(size, adapter_ok, watcher_ok)
Redraw ==
    \E w \in WindowIds, acquire_ok \in BOOLEAN, edit \in UiEdits :
        RedrawRequested(w, acquire_ok, edit)
Resize == \E w \in WindowIds, size \in Sizes : Resized(w, size)
Input == \E w \in WindowIds : WindowEvent(w)
PlatformResize == \E size \in InnerSizes : PlatformResizeWindow(size)
ShaderWrite == \E file \in ShaderFiles : ShaderFileWrite(file)

EventLoopNext ==
    \/ Setup
    \/ CloseRequested
    \/ MainEventsCleared
    \/ Redraw
    \/ Resize
    \/ Input
    \/ OtherEvent
    \/ LoopDestroyed
    \/ PlatformResize
    \/ ShaderWrite
    \/ DebouncerSend

Next ==
    \/ EventLoopNext
    \/ WatcherDisconnect

Spec == Init /\ [][Next]_vars

\* The same program while the debouncer thread stays alive (the sender is
\* never dropped).
SpecWatcherAlive == Init /\ [][EventLoopNext]_vars

\* ------------------------------------------------------------- conversions
\* The conversions of color.rs applied to given values: a Color32 converted to
\* Color and back, and a Color converted to Color32 and back.

\* Four channels of which channel k sweeps v and the other three hold s.
Sweep(k, v, s) == [i \in 1 .. 4 |-> IF i = k THEN v ELSE s]

\* Every u8 in every channel of a Color32.
Color32Inputs ==
    {Color32(t[1], t[2], t[3], t[4]) :
        t \in {Sweep(k, v, s) : k \in 1 .. 4, v \in 0 .. U8Max, s \in {0, 128, U8Max}}}

\* A Color's f64 channels are not confined to [0,1] (the field is public, and
\* From<wgpu::Color> copies any four floats): every multiple of 1/FloatDen
\* from MaxOver steps below 0 to MaxOver steps above 1, in every channel.
ColorInputs ==
    {LinSrgba(t[1], t[2], t[3], t[4]) :
        t \in {Sweep(k, x, s) : k \in 1 .. 4,
                                x \in (0 - MaxOver) .. (FloatDen + MaxOver),
                                s \in {0, FloatDen \div 10, FloatDen}}}

ConversionInit ==
    /\ conv \in {[start |-> "Color32", type |-> "Color32", steps |-> 0,
                   origin |-> c, value |-> c] : c \in Color32Inputs}
               \cup {[start |-> "Color", type |-> "Color", steps |-> 0,
                       origin |-> x, value |-> x] : x \in ColorInputs}
    /\ pc = "start"
    /\ error = "none"
    /\ control_flow = "Poll"
    /\ window = [created |-> FALSE, inner_size |-> NoSize]
    /\ shader_file = [kind |-> "ok", text |-> 1]
    /\ receiver = [queue |-> 0, connected |-> FALSE]
    /\ renderer = NoRenderer
    /\ surface = [w \in WindowIds |-> None]
    /\ app = App_new
    /\ last = NoObs
    /\ hist = [last_positive |-> NoSize, zero_resize |-> FALSE, built |-> NoBundle]

\* Color::from(Color32)
IntoColor ==
    /\ conv.type = "Color32"
    /\ conv.steps < 2
    /\ conv' = [conv EXCEPT !.type = "Color", !.steps = @ + 1,
                            !.value = ColorFromColor32(conv.value)]
    /\ UNCHANGED <<pc, error, control_flow, window, shader_file, receiver,
                   renderer, surface, app, last, hist>>

\* Color32::from(Color)
IntoColor32 ==
    /\ conv.type = "Color"
    /\ conv.steps < 2
    /\ conv' = [conv EXCEPT !.type = "Color32", !.steps = @ + 1,
                            !.value = Color32FromColor(conv.value)]
    /\ UNCHANGED <<pc, error, control_flow, window, shader_file, receiver,
                   renderer, surface, app, last, hist>>

ConversionNext ==
    \/ IntoColor
    \/ IntoColor32

ConversionSpec == ConversionInit /\ [][ConversionNext]_vars

\* ------------------------------------------------------------- claims
IsZero(size) == size.width = 0 \/ size.height = 0
HasRenderer == DOMAIN renderer.viewports # {}

\* C1: a resize to a size with a zero width or height is a no-op: the
\* dispatch does not panic, every viewport (its configuration: width, height,
\* format, present mode, alpha mode; and its offscreen target) is as before,
\* and the surface is not reconfigured.
C1_ZeroResizeIsNoOp ==
    [][(last'.event = "Resized" /\ IsZero(last'.size))
          => /\ ~last'.dispatch_panic
             /\ renderer'.viewports = renderer.viewports
             /\ surface' = surface
             /\ ~last'.configured
             /\ ~last'.replaced]_vars

C1_Witness ==
    /\ last.event = "Resized"
    /\ last.size.width > 0
    /\ last.size.height = 0
    /\ pc = "running"

\* C2: after any sequence of resizes the stored configuration has the width
\* and height of the most recent resize with two positive dimensions (of the
\* size given at finalize if there was none), and a positive resize has
\* reconfigured the surface with that size and replaced the offscreen target,
\* also right after a zero-sized resize.
C2_ConfigIsLastPositiveResize ==
    \A w \in DOMAIN renderer.viewports :
        /\ renderer.viewports[w].config.width = hist.last_positive.width
        /\ renderer.viewports[w].config.height = hist.last_positive.height
        /\ surface[w] = Some(renderer.viewports[w].config)
        /\ (last.event = "Resized" /\ ~IsZero(last.size))
              => /\ last.configured
                 /\ last.replaced
                 /\ renderer.viewports[w].config.width = last.size.width
                 /\ renderer.viewports[w].config.height = last.size.height
                 /\ renderer.viewports[w].render_target
                        = create_target_texture(last.size,
                                                renderer.viewports[w].config.format)

C2_Witness ==
    /\ last.event = "Resized"
    /\ last.after_zero
    /\ ~IsZero(last.size)
    /\ window.inner_size # last.size
    /\ renderer.viewports["w1"].config.width = MaxDim

\* C3: a render with a zero inner width or height skips the whole frame:
\* nothing acquired, nothing submitted, App::ui not run and the application
\* state as before, nothing presented.
C3_ZeroSizedFrameIsSkipped ==
    [][(last'.event = "RedrawRequested" /\ IsZero(last'.inner_size))
          => /\ last'.ops = <<>>
             /\ ~last'.ui_ran
             /\ app' = app
             /\ PresentedImage(last'.ops) = None
             /\ ~last'.dispatch_panic]_vars

C3_Witness ==
    /\ last.event = "RedrawRequested"
    /\ last.inner_size.width > 0
    /\ last.inner_size.height = 0
    /\ pc = "running"

\* C4: a frame that is rendered does, in this order, acquire, submit the
\* background pass, run the GUI and submit its pass, present: two submissions,
\* one present after both, and the GUI pass loads the view, so that what is
\* presented holds the white clear, the triangle and the GUI.
C4_FrameStepsInOrder ==
    (last.event = "RedrawRequested" /\ ~IsZero(last.inner_size) /\ ~last.dispatch_panic)
        => /\ Len(last.ops) = 4
           /\ last.ops[1].op = "acquire"
           /\ last.ops[2].op = "submit"
           /\ last.ops[2].pass.label = "Render Pass"
           /\ last.ops[3].op = "submit"
           /\ last.ops[3].pass.label = "egui Render Pass"
           /\ last.ops[3].pass.load.op = "Load"
           /\ last.ops[4].op = "present"
           /\ last.ui_ran
           /\ LET shown == PresentedImage(last.ops)
              IN  /\ shown.tag = "Some"
                  /\ shown.val.clear = Some(WgpuColor_WHITE)
                  /\ shown.val.triangle.tag = "Some"
                  /\ shown.val.gui

C4_Witness ==
    /\ last.event = "RedrawRequested"
    /\ Len(last.ops) = 4
    /\ last.ui_ran
    /\ PresentedImage(last.ops) # None

\* A call of the closure that reached its poll.
Polled == last.poll # "none"

\* C5: a call of the closure that finds a batch waiting performs exactly one
\* reload and takes exactly one batch; with an empty channel it performs none;
\* after a successful reload the process goes on, and every frame rendered
\* draws with the bundle of the latest successful build.
C5_ReloadPerBatch ==
    /\ [](Polled =>
            /\ last.queue_before > 0
                  => /\ last.poll = "Ok"
                     /\ last.reloads = 1
                     /\ receiver.queue = last.queue_before - 1
            /\ last.queue_before = 0
                  => /\ last.poll \in {"Empty", "Disconnected"}
                     /\ last.reloads = 0
                     /\ last.reload_res = "none"
                     /\ receiver.queue = 0
            /\ last.reload_res = "Ok"
                  => /\ pc # "panicked"
                     /\ BundleOf(renderer) = hist.built)
    /\ [][(last'.event = "RedrawRequested" /\ Len(last'.ops) = 4)
             => /\ last'.ops[2].pass.pipeline = Some(hist.built.render_pipeline)
                /\ last'.ops[2].pass.bind_group.val.layout = hist.built.bind_group_layout
                /\ last'.ops[2].pass.vertex_buffer = Some(hist.built.vertex_buffer)
                /\ last'.ops[2].pass.index_buffer = Some(hist.built.index_buffer)
                /\ last'.ops[2].pass.draw = hist.built.num_indices]_vars

\* A frame drawn with a bundle that a reload installed from a changed text.
C5_Witness ==
    /\ last.event = "RedrawRequested"
    /\ Len(last.ops) = 4
    /\ last.ops[2].pass.pipeline.val.build = MaxVersion
    /\ last.queue_before = MaxQueue
    /\ last.reload_res = "Ok"
    /\ pc = "running"

\* C6: the installed bundle is replaced as a whole or not at all: its five
\* fields always come from one build (the latest successful one), and a reload
\* whose build fails leaves all five as they were.
C6_ReloadIsAllOrNothing ==
    /\ [](HasRenderer =>
            /\ BundleOf(renderer) = hist.built
            /\ renderer.bind_group_layout.build = renderer.render_pipeline.build
            /\ renderer.vertex_buffer.build = renderer.render_pipeline.build
            /\ renderer.index_buffer.build = renderer.render_pipeline.build
            /\ renderer.num_indices = Len(renderer.index_buffer.indices))
    /\ [][(last'.reloads = 1 /\ last'.reload_res # "Ok")
             => /\ BundleOf(renderer') = BundleOf(renderer)
                /\ pc' = "panicked"]_vars

\* A reload that failed on an unreadable file while a bundle was installed.
C6_Witness ==
    /\ last.reloads = 1
    /\ last.reload_res = "Err"
    /\ shader_file.kind = "unreadable"
    /\ error = "shader file unreadable"
    /\ renderer.render_pipeline.build > 0

\* C7: a poll that finds the channel disconnected ends the loop with a panic
\* in that call, and nothing is dispatched or rendered after a panic; a poll
\* that finds the channel empty never ends the loop (the loop goes on, or
\* exits because the close request asked for it).
C7_DisconnectedIsFatal ==
    /\ [](/\ last.poll = "Disconnected" => (pc = "panicked" /\ error = "Disconnected")
          /\ last.poll = "Empty"
                => /\ pc # "panicked"
                   /\ error = "none"
                   /\ pc = "exited" => last.event = "LoopDestroyed")
    /\ [][pc # "panicked"]_vars

C7_Witness ==
    /\ last.poll = "Disconnected"
    /\ last.event = "RedrawRequested"
    /\ Len(last.ops) = 4
    /\ pc = "panicked"

\* C8: once CloseRequested has been dispatched (ControlFlow::Exit is set) the
\* process never ends abnormally, whatever the channel holds.
C8_CloseExitsNormally ==
    control_flow = "Exit" => pc # "panicked"

\* C9: when setup fails on the shader file the process has ended without
\* entering the loop, without rendering a frame and without a window.
C9_SetupFailureProducesNoWindow ==
    (pc \in {"failed", "panicked"} /\ last.event = "setup"
        /\ shader_file.kind \in {"unreadable", "invalid"})
        => /\ ~window.created
           /\ ~HasRenderer
           /\ last.ops = <<>>

\* C10: a frame rendered once the background colour has been edited clears
\* to that colour, and its triangle uniform is the triangle colour.
C10_BackgroundColorIsClearColor ==
    [][(last'.event = "RedrawRequested" /\ Len(last'.ops) = 4
           /\ app.bg_color # App_new.bg_color)
          => LET shown == PresentedImage(last'.ops).val
                 tri == Color32FromColor(app.triangle_color)
             IN  /\ shown.clear = Some(WgpuColorFromColor(app.bg_color))
                 /\ shown.triangle.val.color
                        = <<U8ToFloat(tri.r), U8ToFloat(tri.g),
                            U8ToFloat(tri.b), U8ToFloat(tri.a)>>]_vars

\* C11: the blur kernel size is in 0..120 in every state: it is 0 until the
\* first UI pass, and a UI pass in which the drag control was given a value
\* stores 0 for a value below 0, 120 for a value above 120, and the value
\* itself otherwise.
C11_BlurKernelInRange ==
    /\ app.blur_kernel \in 0 .. BlurMax
    /\ pc = "start" => app.blur_kernel = 0
    /\ last.blur_attempt # None =>
           LET v == last.blur_attempt.val
           IN  app.blur_kernel = IF v < 0 THEN 0 ELSE IF v > BlurMax THEN BlurMax ELSE v

\* A UI pass has just stored 120 for an attempted 200.
C11_Witness ==
    /\ last.event = "RedrawRequested"
    /\ last.ui_ran
    /\ last.blur_attempt # None
    /\ last.blur_attempt.val > BlurMax
    /\ app.blur_kernel = BlurMax
\* C12: the application state (triangle colour, background colour, blur
\* kernel size) changes only in a call of the closure that dispatched a redraw
\* whose GUI pass ran the UI declaration: a close, redraw-needed, resize, other
\* window event (with the window-event hook) or other event, a skipped frame
\* or a frame that ended before its GUI pass, an environment step, and a
\* pipeline reload in the poll all leave the three fields as they were.
C12_OnlyUiChangesApp ==
    [][/\ app' # app => (last'.event = "RedrawRequested" /\ last'.ui_ran)
       /\ (last'.reloads = 1 /\ ~last'.ui_ran) => app' = app
       /\ last'.event \in {"CloseRequested", "MainEventsCleared", "Resized",
                          "WindowEvent", "Other", "LoopDestroyed", "environment"}
              => app' = app]_vars

\* A window event was forwarded and a pipeline reload followed in the same
\* call, on an application state that earlier UI passes had edited.
C12_Witness ==
    /\ last.event = "WindowEvent"
    /\ last.input_forwarded
    /\ last.reloads = 1
    /\ last.reload_res = "Ok"
    /\ app.blur_kernel = BlurMax
    /\ app.bg_color = ColorFromColor32(Color32_RED)
\* The four channels of a value, in order.
Channels(c) ==
    IF "red" \in DOMAIN c THEN <<c.red, c.green, c.blue, c.alpha>>
    ELSE <<c.r, c.g, c.b, c.a>>
Abs(n) == IF n < 0 THEN 0 - n ELSE n
\* Every channel of the Color lies in [0,1].
InUnitRange(x) == \A i \in 1 .. 4 : Channels(x)[i] \in 0 .. FloatDen
\* No channel of the round-tripped Color is further than 1/255 from the
\* channel it started as.
WithinOneStep(x, y) ==
    \A i \in 1 .. 4 : Abs(Channels(y)[i] - Channels(x)[i]) * 255 <= FloatDen

\* C13 as stated: a Color32 converted to Color and back is the same four
\* channel values, and a Color converted to Color32 and back has every
\* channel within 1/255 of where it started.
C13_RoundTrips ==
    conv.steps = 2 =>
        /\ conv.start = "Color32" => conv.value = conv.origin
        /\ conv.start = "Color" => WithinOneStep(conv.origin, conv.value)

\* C13 amended: a Color32 converted to Color and back is the same four
\* channel values, and a Color whose channels all lie in [0,1], converted to
\* Color32 and back, has every channel within 1/255 of where it started.
C13_RoundTripsInUnitRange ==
    conv.steps = 2 =>
        /\ conv.start = "Color32" => conv.value = conv.origin
        /\ (conv.start = "Color" /\ InUnitRange(conv.origin))
               => WithinOneStep(conv.origin, conv.value)

\* A Color with a channel at 0.1, which is no multiple of 1/255, has come
\* back from Color32 with that channel at 26/255.
C13_Witness ==
    /\ conv.start = "Color"
    /\ conv.steps = 2
    /\ InUnitRange(conv.origin)
    /\ conv.origin.red = FloatDen \div 10
    /\ conv.value.red = U8ToFloat(26)
    /\ conv.value # conv.origin
====
